---- MODULE Spec2Model ----
(***************************************************************************)
(* The demux -> PacketQueue -> decode -> FrameQueue -> present pipeline of *)
(* rust-ffplay: FileDecoder (src/file_decoder.rs), the presenter loop of   *)
(* main (src/main.rs) and the earlier Player pipeline (src/player.rs).     *)
(*                                                                         *)
(* Three threads: main (presenter + controller calls), the demuxer thread  *)
(* and the decoder thread.  Every blocking call, channel poll and channel  *)
(* send is one step, so that all interleavings of the threads are          *)
(* explored.                                                               *)
(***************************************************************************)
EXTENDS Integers, Sequences, FiniteSets, TLC

\* ------------------------------------------------------------------ bounds
\* Packets in the container (video and one packet of another stream).
NumPackets == 5
\* Position (1-based) of the container's one non-video packet.
OtherStreamPos == 3
\* Seeks the user issues in one run (seek_serial is a u64 counter).
MaxSeeks == 2
\* Calls of FileDecoder::set_paused in one run.
MaxPauseCalls == 1
\* Frames the codec holds back before it outputs the oldest one.
CodecDelay == 1
\* Queue capacities.  The program uses 60 and 3 (file_decoder.rs:147-148);
\* the capacity is a construction parameter of the queue, and the model
\* runs the same code with capacities the container can fill.
PACKET_QUEUE_SIZE == 1
FRAME_QUEUE_SIZE == 1
\* Width of the unsigned frame-time arithmetic (u64 in the program).
WordBits == 24
\* Timestamp of the container's first video frame, in stream ticks.
FirstPts == 20000
\* Milliseconds the presenter's clock advances in one step of the clock.
TickMs == 10000
\* Seeks the user issues in a run with the clock running.
PacedSeeks == 1
\* Tick advances the clock up to this time; beyond it the clock advances
\* by the presenter's sleeps only.
MaxNow == 40000

\* ------------------------------------------------------- program constants
SEEK_STEP_MS == 20000
\* Distance of two video frames in stream ticks.
FrameTicks == 20000
\* Stream time base of the container, ticks per second = 1000.
TimeBaseNum == 1
TimeBaseDen == 1000

Modulus == 2 ^ WordBits
NoTime == -1

VARIABLES
    ctl,             \* FileDecoder: running, seek_serial, paused, threads
    seek_chan,       \* demuxer_seek_sender -> seek_receiver
    dmx_serial_chan, \* demuxer_serial_sender -> serial_receiver
    dec_serial_chan, \* decoder_serial_sender -> serial_receiver
    pause_chan,      \* demuxer_pause_sender -> pause_receiver
    packet_queue,
    video_queue,
    dmx,             \* DemuxerData and the demuxer thread's position
    dec,             \* DecoderData, the decoder closure's locals, position
    main             \* locals of main's 'running loop and its position

vars == <<ctl, seek_chan, dmx_serial_chan, dec_serial_chan, pause_chan,
          packet_queue, video_queue, dmx, dec, main>>

\* ------------------------------------------------------------ data values
\* DelayItem<Option<PacketData>>: None is the EOS sentinel.
NonePacket == [some |-> FALSE, serial |-> 0, pts |-> 0]
\* Variant: every packet is tagged with serial 0.
PacketDataUntagged(serial, pts) == [some |-> TRUE, serial |-> 0, pts |-> pts]

PacketData(serial, pts) == [some |-> TRUE, serial |-> serial, pts |-> pts]

\* DelayItem<Option<VideoData>>: None is the EOS sentinel.
NoneFrame == [some |-> FALSE, serial |-> 0, frame_time |-> 0,
              diff_to_prev_frame |-> 0]
\* Variant: the frame is tagged with the serial after the current one.
VideoDataNextSerial(serial, frame_time, diff) ==
    [some |-> TRUE, serial |-> serial + 1, frame_time |-> frame_time,
     diff_to_prev_frame |-> diff]

VideoData(serial, frame_time, diff) ==
    [some |-> TRUE, serial |-> serial, frame_time |-> frame_time,
     diff_to_prev_frame |-> diff]

\* The container: packet i belongs to the video stream unless i is
\* OtherStreamPos; video packets carry consecutive timestamps.
IsVideo(i) == i # OtherStreamPos
VideoIndex(i) == IF i < OtherStreamPos THEN i - 1 ELSE i - 2
PacketPts(i) == FirstPts + VideoIndex(i) * FrameTicks

\* ------------------------------------------------------------- rescaling
RECURSIVE Gcd(_, _)
Gcd(a, b) == IF b = 0 THEN a ELSE Gcd(b, a % b)

\* Division rounding toward zero (Rounding::Zero).
TruncDiv(a, b) == IF a >= 0 THEN a \div b ELSE -((-a) \div b)

\* v.rescale_with(from, to, Rounding::Zero): v * from / to.
Rescale(v, fromNum, fromDen, toNum, toDen) ==
    LET n == fromNum * toDen
        d == fromDen * toNum
        g == Gcd(n, d)
    IN  TruncDiv(v * (n \div g), d \div g)

\* frame_time in milliseconds of a decoded timestamp.
FrameTimeMs(pts) == Rescale(pts, TimeBaseNum, TimeBaseDen, 1, 1000)

\* stream.seek(ts, ..): the read position becomes the video keyframe at or
\* before ts (in TIME_BASE units), the first one when ts is before it.
BackendSeek(ts) ==
    LET us(i) == Rescale(PacketPts(i), TimeBaseNum, TimeBaseDen, 1, 1000000)
        cand == {i \in 1..NumPackets : IsVideo(i) /\ us(i) <= ts}
    IN  IF cand = {} THEN 1
        ELSE CHOOSE i \in cand : \A j \in cand : j <= i

\* -------------------------------------------------------- bounded queues
\* Variant: add lets one item more in before it blocks.
CanAddOffByOne(q, capacity) == Len(q) <= capacity

\* BlockingDelayQueue::add blocks while the queue holds `capacity` items.
CanAdd(q, capacity) == Len(q) < capacity
\* BlockingDelayQueue::take blocks while the queue is empty.
CanTake(q) == Len(q) > 0

\* Variant: clear leaves the oldest item in the queue.
ClearKeepsHead(q) == IF q = <<>> THEN q ELSE <<Head(q)>>

\* BlockingDelayQueue::clear drops every item of the queue.
Clear(q) == <<>>

\* mpsc::Sender::send fails once the receiving thread has dropped the
\* receiver, which it does when its closure returns.
ReceiverAlive(thread) == thread.pc # "done"

\* History of the presenter: serial and frame_time of the frame it took
\* last from the video queue (NoTime before the first one).  The history is
\* kept in the runs that observe it (main.observe, set by ObservedInit).
NoneTaken == [serial |-> 0, frame_time |-> NoTime]
Taken(video_data) ==
    [serial |-> video_data.serial, frame_time |-> video_data.frame_time]

\* ------------------------------------------------------------------ Init
\* `observe` tells whether the presenter's history (the frame it took last,
\* the frame it drew last, the seeks since) is kept; `timed` tells whether
\* the presenter's clock runs.  The pacing only delays the presenter: no
\* other variable depends on main.now or main.presentation_time, so a run
\* without the clock shows the values a timed run shows on everything else.
InitWith(observe, timed) ==
    /\ ctl = [running |-> TRUE, seek_serial |-> 0, paused |-> FALSE,
              threads |-> <<"demuxer", "decoder">>, pause_calls |-> 0,
              set_paused_result |-> "None"]
    /\ seek_chan = <<>>
    /\ dmx_serial_chan = <<>>
    /\ dec_serial_chan = <<>>
    /\ pause_chan = <<>>
    /\ packet_queue = <<>>
    /\ video_queue = <<>>
    /\ dmx = [pc |-> "poll", seek_serial |-> 0, paused |-> FALSE, pos |-> 1,
              seek_to |-> 0, late_enqueues |-> 0, result |-> "running"]
    /\ dec = [pc |-> "poll", seek_serial |-> 0, sent_eof |-> FALSE,
              last_frame_time |-> NoTime, buf |-> <<>>, draining |-> FALSE,
              first_diff |-> NoTime, first_frame_time |-> NoTime,
              sum_diff |-> 0, result |-> "running"]
    /\ main = [pc |-> "events", paused |-> FALSE, need_update |-> FALSE,
               seek_serial |-> 0, last_pts |-> 0,
               video_data_item |-> NoneFrame, observe |-> observe,
               taken |-> NoneTaken, drawn |-> 0, seek_steps |-> 0,
               timed |-> timed, now |-> 0, presentation_time |-> 0,
               resumed |-> "no", stop_calls |-> 0, result |-> "running"]

Init == InitWith(FALSE, FALSE)

\* Variant: a worker never sees the running flag gone.
RunningGoneNever == FALSE

\* running.upgrade().is_none() (file_decoder.rs:309, 403): the controller
\* has dropped its strong reference.
RunningGone == ~ctl.running

\* ------------------------------------------------------- demuxer thread
\* file_decoder.rs:247-262: try_recv on the pause channel; a received value
\* becomes demuxer_data.paused.
PolledPause(paused, chan) == IF chan # <<>> THEN Head(chan) ELSE paused

\* History of the demuxer: items it has put on the packet queue after the
\* controller released the running flag.
LateEnqueues(late_enqueues) ==
    IF ctl.running THEN late_enqueues ELSE late_enqueues + 1

\* Variant: the demuxer's loop goes on where its closure should return.
DemuxerGoesOn(result) == [dmx EXCEPT !.pc = "check"]

\* The demuxer's locals once its closure has returned: DemuxerData is
\* dropped, the thread's result and the last serial it held are kept.
DemuxerDone(result) ==
    [dmx EXCEPT !.pc = "done", !.result = result, !.paused = FALSE,
                !.pos = 0, !.seek_to = 0]

\* Top of 'demuxing (file_decoder.rs:247-265): try_recv on the pause
\* channel, then on the seek channel.
PollChannels ==
    /\ pause_chan' = IF pause_chan # <<>> THEN Tail(pause_chan) ELSE pause_chan
    /\ seek_chan' = IF seek_chan # <<>> THEN Tail(seek_chan) ELSE seek_chan
    /\ dmx' = [dmx EXCEPT
                 !.paused = PolledPause(@, pause_chan),
                 !.seek_to = IF seek_chan # <<>> THEN Head(seek_chan) ELSE @,
                 !.pc = IF seek_chan # <<>> THEN "seek" ELSE "read"]
    /\ UNCHANGED <<ctl, dmx_serial_chan, dec_serial_chan, packet_queue,
                   video_queue, dec, main>>

\* The first iteration of 'demuxing.
DemuxerPoll ==
    /\ dmx.pc = "poll"
    /\ PollChannels

\* file_decoder.rs:267-284: try_recv on the serial channel, backend seek
\* (which may fail: the thread returns the error), packet_queue.clear().
DemuxerSeek ==
    /\ dmx.pc = "seek"
    /\ dmx_serial_chan' =
          IF dmx_serial_chan # <<>> THEN Tail(dmx_serial_chan)
          ELSE dmx_serial_chan
    /\ LET serial == IF dmx_serial_chan # <<>> THEN Head(dmx_serial_chan)
                     ELSE dmx.seek_serial
           ts == Rescale(dmx.seek_to, TimeBaseNum, TimeBaseDen, 1, 1000000)
       IN  \E ok \in BOOLEAN :
              IF ok
              THEN /\ dmx' = [dmx EXCEPT !.seek_serial = serial,
                                         !.pos = BackendSeek(ts),
                                         !.seek_to = 0,
                                         !.pc = "read"]
                   /\ packet_queue' = Clear(packet_queue)
              ELSE /\ dmx' = [DemuxerDone("Err") EXCEPT
                                         !.seek_serial = serial]
                   /\ UNCHANGED packet_queue
    /\ UNCHANGED <<ctl, seek_chan, dec_serial_chan, pause_chan, video_queue,
                   dec, main>>

\* file_decoder.rs:286-307: read the next packet and enqueue it, or enqueue
\* the EOS sentinel and leave the loop, or sleep while paused.
DemuxerRead ==
    /\ dmx.pc = "read"
    /\ IF dmx.paused
       THEN /\ dmx' = [dmx EXCEPT !.pc = "check"]
            /\ UNCHANGED packet_queue
       ELSE IF dmx.pos <= NumPackets
       THEN IF IsVideo(dmx.pos)
            THEN /\ CanAdd(packet_queue, PACKET_QUEUE_SIZE)
                 /\ packet_queue' =
                       Append(packet_queue,
                              PacketData(dmx.seek_serial, PacketPts(dmx.pos)))
                 /\ dmx' = [dmx EXCEPT !.pos = @ + 1, !.pc = "check",
                                       !.late_enqueues = LateEnqueues(@)]
            ELSE /\ dmx' = [dmx EXCEPT !.pos = @ + 1, !.pc = "check"]
                 /\ UNCHANGED packet_queue
       ELSE /\ CanAdd(packet_queue, PACKET_QUEUE_SIZE)
            /\ packet_queue' = Append(packet_queue, NonePacket)
            /\ dmx' = [DemuxerDone("Ok") EXCEPT
                           !.late_enqueues = LateEnqueues(@)]
    /\ UNCHANGED <<ctl, seek_chan, dmx_serial_chan, dec_serial_chan,
                   pause_chan, video_queue, dec, main>>

\* file_decoder.rs:309-311 and the top of the next iteration: leave the
\* loop when the running flag is gone, else poll the channels.  (The check
\* reads only the flag and the polls only the channels, and the main thread
\* never sends after it released the flag, so the two are one step.)
DemuxerCheckRunning ==
    /\ dmx.pc = "check"
    /\ IF ~RunningGone
       THEN PollChannels
       ELSE /\ dmx' = DemuxerDone("Ok")
            /\ UNCHANGED <<ctl, seek_chan, dmx_serial_chan, dec_serial_chan,
                           pause_chan, packet_queue, video_queue, dec, main>>

\* ------------------------------------------------------- decoder thread
\* The decoder's locals once its closure has returned.
DecoderDone(result) ==
    [dec EXCEPT !.pc = "done", !.result = result, !.sent_eof = FALSE,
                !.last_frame_time = NoTime, !.buf = <<>>,
                !.draining = FALSE, !.first_diff = NoTime,
                !.first_frame_time = NoTime, !.sum_diff = 0]

\* Top of 'decoding (file_decoder.rs:409-418): try_recv on the serial
\* channel; a new serial clears sent_eof, flushes the codec, clears the
\* video queue and forgets last_frame_time.
PollSerial ==
    /\ IF dec_serial_chan # <<>>
       THEN /\ dec_serial_chan' = Tail(dec_serial_chan)
            /\ dec' = [dec EXCEPT !.seek_serial = Head(dec_serial_chan),
                                  !.sent_eof = FALSE,
                                  !.buf = <<>>, !.draining = FALSE,
                                  !.last_frame_time = NoTime,
                                  !.first_diff = NoTime,
                                  !.first_frame_time = NoTime,
                                  !.sum_diff = 0,
                                  !.pc = "take"]
            /\ video_queue' = Clear(video_queue)
       ELSE /\ dec' = [dec EXCEPT !.pc = IF dec.sent_eof THEN "receive"
                                         ELSE "take"]
            /\ UNCHANGED <<dec_serial_chan, video_queue>>
    /\ UNCHANGED <<ctl, seek_chan, dmx_serial_chan, pause_chan, packet_queue,
                   dmx, main>>

\* An iteration of 'decoding that follows a `continue` or an EAGAIN.
DecoderPoll ==
    /\ dec.pc = "poll"
    /\ PollSerial

\* Variant: the decoder keeps only packets of a newer serial.
PacketIsNewer(serial, packet) == serial < packet.serial

\* The decoder's test of a packet's serial (file_decoder.rs:424).
PacketIsCurrent(serial, packet) == serial = packet.serial

\* file_decoder.rs:419-440: blocking take of one packet; a packet of another
\* serial is skipped, a packet of this serial is sent to the codec, the
\* sentinel makes the codec drain.
DecoderTake ==
    /\ dec.pc = "take"
    /\ CanTake(packet_queue)
    /\ packet_queue' = Tail(packet_queue)
    /\ LET packet_data == Head(packet_queue)
       IN  dec' =
             IF packet_data.some
             THEN IF ~PacketIsCurrent(dec.seek_serial, packet_data)
                  THEN [dec EXCEPT !.pc = "poll"]
                  ELSE [dec EXCEPT !.buf = Append(@, packet_data.pts),
                                   !.pc = "receive"]
             ELSE [dec EXCEPT !.sent_eof = TRUE, !.draining = TRUE,
                              !.pc = "receive"]
    /\ UNCHANGED <<ctl, seek_chan, dmx_serial_chan, dec_serial_chan,
                   pause_chan, video_queue, dmx, main>>

\* Variant: a drained, empty codec keeps answering EAGAIN.
ReceiveStatusNoEof(d) ==
    IF d.draining
    THEN IF d.buf = <<>> THEN "EAGAIN" ELSE "Frame"
    ELSE IF Len(d.buf) > CodecDelay THEN "Frame" ELSE "EAGAIN"

\* decoder.receive_frame: Eof once the codec drains and is empty, EAGAIN
\* while it holds no more than CodecDelay frames, else the oldest frame.
ReceiveStatus(d) ==
    IF d.draining
    THEN IF d.buf = <<>> THEN "Eof" ELSE "Frame"
    ELSE IF Len(d.buf) > CodecDelay THEN "Frame" ELSE "EAGAIN"

\* Variant: the first frame after a flush is measured from time zero.
FrameDiffFromZero(last_frame_time, frame_time) ==
    IF last_frame_time = NoTime THEN frame_time
    ELSE frame_time - last_frame_time

\* frame_diff (file_decoder.rs:379-382), for a frame_time not before the
\* previous one.
FrameDiff(last_frame_time, frame_time) ==
    IF last_frame_time = NoTime THEN 0 ELSE frame_time - last_frame_time

\* History of the decoder: diff_to_prev_frame of the first frame it queued
\* since it last adopted a serial (NoTime while it has queued none).
FirstDiff(first_diff, diff) == IF first_diff = NoTime THEN diff ELSE first_diff

\* History of the decoder: frame_time of the first frame it queued since it
\* last adopted a serial, and the sum of the diff_to_prev_frame of the
\* frames it queued since then.
FirstFrameTime(first_frame_time, frame_time) ==
    IF first_frame_time = NoTime THEN frame_time ELSE first_frame_time

\* file_decoder.rs:343-403: one receive_frame.  The unsigned subtraction
\* frame_time - prev_time below zero panics in a build with overflow checks
\* and wraps in a build without.
DecoderReceive ==
    /\ dec.pc = "receive"
    /\ LET status == ReceiveStatus(dec)
           frame_time == FrameTimeMs(Head(dec.buf))
           underflow == /\ dec.last_frame_time # NoTime
                        /\ frame_time < dec.last_frame_time
       IN  CASE status = "Eof" ->
                  /\ CanAdd(video_queue, FRAME_QUEUE_SIZE)
                  /\ video_queue' = Append(video_queue, NoneFrame)
                  /\ dec' = DecoderDone("Ok")
             [] status = "EAGAIN" ->
                  /\ dec' = [dec EXCEPT !.pc = "poll"]
                  /\ UNCHANGED video_queue
             [] status = "Frame" ->
                  \/ /\ underflow
                     /\ dec' = DecoderDone("Panic")
                     /\ UNCHANGED video_queue
                  \/ /\ CanAdd(video_queue, FRAME_QUEUE_SIZE)
                     /\ LET diff == IF underflow
                                    THEN frame_time - dec.last_frame_time
                                         + Modulus
                                    ELSE FrameDiff(dec.last_frame_time,
                                                   frame_time)
                        IN /\ video_queue' =
                                Append(video_queue,
                                       VideoData(dec.seek_serial, frame_time,
                                                 diff))
                           /\ dec' = [dec EXCEPT
                                        !.buf = Tail(@),
                                        !.last_frame_time = frame_time,
                                        !.first_diff = FirstDiff(@, diff),
                                        !.first_frame_time =
                                            FirstFrameTime(@, frame_time),
                                        !.sum_diff = @ + diff,
                                        !.pc = "check"]
    /\ UNCHANGED <<ctl, seek_chan, dmx_serial_chan, dec_serial_chan,
                   pause_chan, packet_queue, dmx, main>>

\* file_decoder.rs:403, 451-453 and the top of the next iteration: after a
\* frame was queued the loop ends when the running flag is gone, else the
\* next iteration polls the serial channel.
DecoderCheckRunning ==
    /\ dec.pc = "check"
    /\ IF ~RunningGone
       THEN PollSerial
       ELSE /\ dec' = DecoderDone("Ok")
            /\ UNCHANGED <<ctl, seek_chan, dmx_serial_chan, dec_serial_chan,
                           pause_chan, packet_queue, video_queue, dmx, main>>

\* ------------------------------------------- main thread: the presenter
\* Variant: the unsigned value is read as it is.
AsSignedNoWrap(x) == x

\* `x as u64` and `x as i64` on the model's word width.
AsUnsigned(x) == x % Modulus
AsSigned(x) == IF x >= Modulus \div 2 THEN x - Modulus ELSE x

\* main.rs:264 and main.rs:273: the seek target of a seek event.
SeekTarget(last_pts, forward) ==
    IF forward THEN AsSigned(last_pts) + SEEK_STEP_MS
    ELSE AsSigned(last_pts) - SEEK_STEP_MS

\* The loop's locals once main has left 'running by Quit or by a panic:
\* they are not read again and take their initial values.
MainLeft(result) ==
    [main EXCEPT !.pc = "stop", !.result = result, !.paused = FALSE,
                 !.need_update = FALSE, !.seek_serial = 0, !.last_pts = 0,
                 !.taken = NoneTaken, !.drawn = 0, !.seek_steps = 0,
                 !.now = 0, !.presentation_time = 0, !.resumed = "no"]

\* A panic of the main thread unwinds main; dropping `player` runs
\* FileDecoder::drop, which calls stop() (file_decoder.rs:526-530).
MainPanic == MainLeft("Panic")

\* main.rs:254: Quit or Escape leaves the loop; main then calls stop().
MainQuit ==
    /\ main.pc = "events"
    /\ main' = MainLeft("Quit")
    /\ UNCHANGED <<ctl, seek_chan, dmx_serial_chan, dec_serial_chan,
                   pause_chan, packet_queue, video_queue, dmx, dec>>

\* Variant: leaving pause keeps the old presentation anchor.
ResumedAnchorKept(paused, presentation_time, now) == presentation_time

\* main.rs:256-258: when the Space key ends a pause the presentation anchor
\* becomes Instant::now().
ResumedAnchor(paused, presentation_time, now) ==
    IF paused THEN now ELSE presentation_time

\* main.rs:255-262: Space toggles paused.  (main.resumed is history:
\* "pending" when a pause has ended and no frame was drawn since, "drawn"
\* when the first frame since was drawn.)
MainPause ==
    /\ main.pc = "events"
    /\ main' = [main EXCEPT
                  !.paused = ~@,
                  !.presentation_time =
                      IF main.timed THEN ResumedAnchor(main.paused, @, main.now)
                      ELSE @,
                  !.resumed = IF main.timed /\ main.paused THEN "pending"
                              ELSE @]
    /\ UNCHANGED <<ctl, seek_chan, dmx_serial_chan, dec_serial_chan,
                   pause_chan, packet_queue, video_queue, dmx, dec>>

\* History of the presenter: seek events since the last drawn frame,
\* forward ones counted up and backward ones down.
SeekSteps(observe, seek_steps, forward) ==
    IF ~observe THEN seek_steps
    ELSE IF forward THEN seek_steps + 1 ELSE seek_steps - 1

\* main.rs:263-280 up to the first send of FileDecoder::seek
\* (file_decoder.rs:492-496): the target goes to the demuxer's seek channel.
MainSeek(forward) ==
    /\ main.pc = "events"
    /\ ctl.seek_serial < MaxSeeks
    /\ LET seek_to == SeekTarget(main.last_pts, forward)
       IN  IF ReceiverAlive(dmx)
           THEN /\ seek_chan' = Append(seek_chan, seek_to)
                /\ main' = [main EXCEPT !.last_pts = AsUnsigned(seek_to),
                                        !.seek_steps =
                                            SeekSteps(main.observe, @, forward),
                                        !.pc = "seek_demuxer_serial"]
           ELSE /\ main' = MainPanic
                /\ UNCHANGED seek_chan
    /\ UNCHANGED <<ctl, dmx_serial_chan, dec_serial_chan, pause_chan,
                   packet_queue, video_queue, dmx, dec>>

\* Variant: the serial counter wraps around.
NextSerialWrapping(serial) == (serial + 1) % MaxSeeks

\* The serial a seek creates (file_decoder.rs:497).
NextSerial(serial) == serial + 1

\* file_decoder.rs:497-502: bump seek_serial and send it to the demuxer.
SeekSendDemuxerSerial ==
    /\ main.pc = "seek_demuxer_serial"
    /\ ctl' = [ctl EXCEPT !.seek_serial = NextSerial(@)]
    /\ IF ReceiverAlive(dmx)
       THEN /\ dmx_serial_chan' = Append(dmx_serial_chan, ctl'.seek_serial)
            /\ main' = [main EXCEPT !.pc = "seek_decoder_serial"]
       ELSE /\ main' = MainPanic
            /\ UNCHANGED dmx_serial_chan
    /\ UNCHANGED <<seek_chan, dec_serial_chan, pause_chan, packet_queue,
                   video_queue, dmx, dec>>

\* file_decoder.rs:503-508 and main.rs:267-270: send the serial to the
\* decoder, return it; main stores it and sets need_update.
SeekSendDecoderSerial ==
    /\ main.pc = "seek_decoder_serial"
    /\ IF ReceiverAlive(dec)
       THEN /\ dec_serial_chan' = Append(dec_serial_chan, ctl.seek_serial)
            /\ main' = [main EXCEPT !.seek_serial = ctl.seek_serial,
                                    !.need_update = TRUE,
                                    !.pc = "events"]
       ELSE /\ main' = MainPanic
            /\ UNCHANGED dec_serial_chan
    /\ UNCHANGED <<ctl, seek_chan, dmx_serial_chan, pause_chan, packet_queue,
                   video_queue, dmx, dec>>

\* main.rs:252, 281-289: no event or a Resize event; unless paused without
\* a pending update the loop goes on to take a frame.
MainNoEvent ==
    /\ main.pc = "events"
    /\ ~(main.paused /\ ~main.need_update)
    /\ main' = [main EXCEPT !.pc = "take"]
    /\ UNCHANGED <<ctl, seek_chan, dmx_serial_chan, dec_serial_chan,
                   pause_chan, packet_queue, video_queue, dmx, dec>>

\* main.rs:291-299: blocking take from the video queue; the sentinel leaves
\* the loop.
MainTake ==
    /\ main.pc = "take"
    /\ CanTake(video_queue)
    /\ video_queue' = Tail(video_queue)
    /\ main' = IF Head(video_queue).some
               THEN [main EXCEPT !.video_data_item = Head(video_queue),
                                 !.taken = IF main.observe
                                           THEN Taken(Head(video_queue))
                                           ELSE @,
                                 !.pc = "process"]
               ELSE [main EXCEPT !.pc = "stop", !.result = "Eos"]
    /\ UNCHANGED <<ctl, seek_chan, dmx_serial_chan, dec_serial_chan,
                   pause_chan, packet_queue, dmx, dec>>

\* Variant: the presenter draws every frame it takes.
FrameIsAny(video_data, seek_serial) == TRUE

\* Variant: the presenter also draws frames of older serials.
FrameIsCurrentOrOlder(video_data, seek_serial) ==
    video_data.serial <= seek_serial

\* The presenter's test of a frame's serial (main.rs:303).
FrameIsCurrent(video_data, seek_serial) == video_data.serial = seek_serial

\* main.rs:313-317: thread::sleep until the frame's target instant when
\* that lies in the future; Instant::now() afterwards.
SleepUntil(now, target) == IF target > now THEN target ELSE now

\* main.rs:301-381: a frame of the current serial is paced, uploaded and
\* presented; any other frame is dropped.
MainProcess ==
    /\ main.pc = "process"
    /\ main' = IF FrameIsCurrent(main.video_data_item, main.seek_serial)
               THEN LET frame_time == main.video_data_item.diff_to_prev_frame
                        target == main.presentation_time + frame_time
                    IN  [main EXCEPT
                           !.last_pts = main.video_data_item.frame_time,
                           !.now = IF main.timed THEN SleepUntil(@, target)
                                   ELSE @,
                           !.presentation_time = IF main.timed THEN target
                                                 ELSE @,
                           !.resumed = IF @ = "pending" THEN "drawn" ELSE @,
                           !.drawn = IF main.observe
                                     THEN main.video_data_item.frame_time
                                     ELSE @,
                           !.seek_steps = 0,
                           !.need_update = FALSE,
                           !.video_data_item = NoneFrame,
                           !.pc = "events"]
               ELSE [main EXCEPT !.video_data_item = NoneFrame,
                                 !.pc = "events"]
    /\ UNCHANGED <<ctl, seek_chan, dmx_serial_chan, dec_serial_chan,
                   pause_chan, packet_queue, video_queue, dmx, dec>>

\* The presenter's clock advances.  main reads it in MainProcess and, when
\* a pause ends, in MainPause; the model lets it advance right before such
\* a reading.
Tick ==
    /\ main.timed
    /\ main.pc = "process" \/ (main.pc = "events" /\ main.paused)
    /\ main.now < MaxNow
    /\ main' = [main EXCEPT !.now = @ + TickMs]
    /\ UNCHANGED <<ctl, seek_chan, dmx_serial_chan, dec_serial_chan,
                   pause_chan, packet_queue, video_queue, dmx, dec>>

\* file_decoder.rs:511-519: FileDecoder::set_paused; a failed send is
\* returned as an error (set_paused_result records what the last call
\* returned).
SetPaused(paused) ==
    /\ main.pc = "events"
    /\ ctl.pause_calls < MaxPauseCalls
    /\ ctl' = [ctl EXCEPT !.paused = paused, !.pause_calls = @ + 1,
                          !.set_paused_result =
                              IF ReceiverAlive(dmx) THEN "Ok" ELSE "Err"]
    /\ pause_chan' = IF ReceiverAlive(dmx) THEN Append(pause_chan, paused)
                     ELSE pause_chan
    /\ UNCHANGED <<seek_chan, dmx_serial_chan, dec_serial_chan, packet_queue,
                   video_queue, dmx, dec, main>>

\* ---------------------------------------------------- FileDecoder::stop
\* Variant: take() on an empty Option puts the reference back.
TakeToggles(running) == ~running

\* Option::take on self.running leaves None, whatever it held.
Take(running) == FALSE

\* file_decoder.rs:465: self.running.take() drops the only strong reference.
\* (main.stop_calls counts the calls of stop().)
StopRelease ==
    /\ main.pc = "stop"
    /\ ctl' = [ctl EXCEPT !.running = Take(@)]
    /\ main' = [main EXCEPT !.pc = "stop_clear_packets", !.stop_calls = @ + 1]
    /\ UNCHANGED <<seek_chan, dmx_serial_chan, dec_serial_chan, pause_chan,
                   packet_queue, video_queue, dmx, dec>>

\* file_decoder.rs:466
StopClearPackets ==
    /\ main.pc = "stop_clear_packets"
    /\ packet_queue' = Clear(packet_queue)
    /\ main' = [main EXCEPT !.pc = "stop_clear_frames"]
    /\ UNCHANGED <<ctl, seek_chan, dmx_serial_chan, dec_serial_chan,
                   pause_chan, video_queue, dmx, dec>>

\* file_decoder.rs:467-468: clear the video queue; the join loop that
\* follows ends at once when no handle is left.
StopClearFrames ==
    /\ main.pc = "stop_clear_frames"
    /\ video_queue' = Clear(video_queue)
    /\ main' = [main EXCEPT !.pc = IF ctl.threads = <<>> THEN "stopped"
                                   ELSE "stop_join"]
    /\ UNCHANGED <<ctl, seek_chan, dmx_serial_chan, dec_serial_chan,
                   pause_chan, packet_queue, dmx, dec>>

ThreadOf(name) == IF name = "demuxer" THEN dmx ELSE dec

\* file_decoder.rs:468-480: pop the last handle and join it; join blocks
\* until that thread has returned or panicked.  stop() returns when no
\* handle is left.
StopJoin ==
    /\ main.pc = "stop_join"
    /\ Len(ctl.threads) > 0
    /\ ThreadOf(ctl.threads[Len(ctl.threads)]).pc = "done"
    /\ ctl' = [ctl EXCEPT !.threads = SubSeq(@, 1, Len(@) - 1)]
    /\ main' = [main EXCEPT !.pc = IF Len(ctl.threads) = 1 THEN "stopped"
                                   ELSE "stop_join"]
    /\ UNCHANGED <<seek_chan, dmx_serial_chan, dec_serial_chan, pause_chan,
                   packet_queue, video_queue, dmx, dec>>

\* main.rs:384-387 and file_decoder.rs:526-530: main has called stop() and
\* returns; `player` goes out of scope and FileDecoder::drop calls stop()
\* again.  (After a panic of main the call made by drop is the only one.)
DropPlayer ==
    /\ main.pc = "stopped"
    /\ main.result # "Panic"
    /\ main.stop_calls = 1
    /\ main' = [main EXCEPT !.pc = "stop"]
    /\ UNCHANGED <<ctl, seek_chan, dmx_serial_chan, dec_serial_chan,
                   pause_chan, packet_queue, video_queue, dmx, dec>>

\* -------------------------------------------------------- specification
Demuxer ==
    \/ DemuxerPoll
    \/ DemuxerSeek
    \/ DemuxerRead
    \/ DemuxerCheckRunning

Decoder ==
    \/ DecoderPoll
    \/ DecoderTake
    \/ DecoderReceive
    \/ DecoderCheckRunning

Presenter ==
    \/ MainQuit
    \/ \E forward \in BOOLEAN : MainSeek(forward)
    \/ SeekSendDemuxerSerial
    \/ SeekSendDecoderSerial
    \/ MainNoEvent
    \/ MainTake
    \/ MainProcess

Stop ==
    \/ StopRelease
    \/ StopClearPackets
    \/ StopClearFrames
    \/ StopJoin

\* The program as main drives it: main never calls set_paused.  The Space
\* key only holds the presenter back (MainNoEvent is disabled while paused
\* with nothing to redraw), so a run with pauses shows, on every variable
\* but main.paused, what a run shows in which the presenter takes no step
\* for a while; the key is left to ApiNext.
Next ==
    \/ Demuxer
    \/ Decoder
    \/ Presenter
    \/ Stop

Spec == Init /\ [][Next]_vars

\* The same program, with the presenter's history of taken frames kept.
ObservedInit == InitWith(TRUE, FALSE)

ObservedSpec == ObservedInit /\ [][Next]_vars

\* The program with the Space key and with a client of FileDecoder that
\* also calls set_paused.
ApiNext ==
    \/ Next
    \/ MainPause
    \/ \E paused \in BOOLEAN : SetPaused(paused)

ApiSpec == Init /\ [][ApiNext]_vars

\* ------------------------------------------------------------- properties
InSeek == main.pc \in {"seek_demuxer_serial", "seek_decoder_serial"}
InStop == main.pc \in {"stop", "stop_clear_packets", "stop_clear_frames",
                       "stop_join"}

\* The presenter holds a frame that it is going to draw (main.rs:303).
AboutToDraw ==
    /\ main.pc = "process"
    /\ FrameIsCurrent(main.video_data_item, main.seek_serial)

\* C1: once seek() has produced serial S (the controller's seek_serial), no
\* frame of an epoch below S is drawn: a frame the presenter is going to
\* draw carries at least the controller's serial.
C1_NoStaleFrameDrawn ==
    AboutToDraw => main.video_data_item.serial >= ctl.seek_serial

\* A frame of the epoch of a seek is about to be drawn while frames of the
\* previous epoch have been around.
C1_Witness ==
    /\ AboutToDraw
    /\ ctl.seek_serial = MaxSeeks
    /\ main.video_data_item.serial = MaxSeeks

\* C5: neither queue ever holds more items than its capacity, sentinels
\* included.
C5_QueuesWithinCapacity ==
    /\ Len(packet_queue) <= PACKET_QUEUE_SIZE
    /\ Len(video_queue) <= FRAME_QUEUE_SIZE

\* Both queues are full, and both producers are blocked in add: the demuxer
\* with the next video packet, the decoder with a decoded frame.
C5_Witness ==
    /\ Len(packet_queue) = PACKET_QUEUE_SIZE
    /\ Len(video_queue) = FRAME_QUEUE_SIZE
    /\ dmx.pc = "read" /\ ~dmx.paused
    /\ dmx.pos <= NumPackets /\ IsVideo(dmx.pos)
    /\ dec.pc = "receive" /\ ReceiveStatus(dec) = "Frame"

\* C8: a frame the presenter has taken carries an epoch that is at most the
\* controller's seek_serial.
C8_FrameEpochAtMostCurrent ==
    main.pc = "process" => main.video_data_item.serial <= ctl.seek_serial

\* The presenter has taken a frame of an epoch before the current one.
C8_Witness ==
    /\ main.pc = "process"
    /\ main.video_data_item.serial < ctl.seek_serial

\* C9: the controller's, the demuxer's and the decoder's serial never
\* decrease, and the two workers' serials never exceed the controller's.
C9_EpochsMonotonic ==
    [][/\ ctl'.seek_serial >= ctl.seek_serial
       /\ dmx'.seek_serial >= dmx.seek_serial
       /\ dec'.seek_serial >= dec.seek_serial
       /\ dmx.seek_serial <= ctl.seek_serial
       /\ dec.seek_serial <= ctl.seek_serial
       /\ dmx'.seek_serial <= ctl'.seek_serial
       /\ dec'.seek_serial <= ctl'.seek_serial]_vars

\* All three components have reached the serial of the last seek.
C9_Witness ==
    /\ ctl.seek_serial = MaxSeeks
    /\ dmx.seek_serial = MaxSeeks
    /\ dec.seek_serial = MaxSeeks

\* Timestamps of the container's first and last video frame, in ms.
FirstFrameMs == FrameTimeMs(FirstPts)
LastFrameMs == FrameTimeMs(PacketPts(NumPackets))

\* C2: after one seek during playback the presenter draws a frame of
\* epoch 1.  need_update is set when seek() returns and cleared only by a
\* draw, and until a draw last_pts holds the seek's target; so when the
\* presenter has left its loop on the EOS sentinel after exactly one seek
\* (which the demuxer received, whose target lies inside the container,
\* without any failure), a frame of epoch 1 must have been drawn before.
C2_SeekThenFrameOfNewEpoch ==
    (/\ main.result = "Eos"
     /\ ctl.seek_serial = 1
     /\ seek_chan = <<>>
     /\ dmx.result # "Err" /\ dec.result # "Panic"
     /\ FirstFrameMs <= AsSigned(main.last_pts)
     /\ AsSigned(main.last_pts) <= LastFrameMs)
    => ~main.need_update

\* seek() has returned, nothing was stopped and both workers are alive.
BurstDone ==
    /\ main.result = "running"
    /\ ~InSeek
    /\ dmx.pc # "done"
    /\ dec.pc # "done"

\* C3: after a burst of seeks the demuxer and the decoder reach the
\* controller's epoch.  A worker's serial changes only when it reads its
\* serial channel, and the demuxer reads it only when it has received a seek
\* command; so once seek() has returned and a live worker has consumed every
\* command sent to it, its serial must be the controller's.
C3_WorkersReachLastEpoch ==
    /\ (BurstDone /\ seek_chan = <<>> /\ dmx.pc # "seek")
          => dmx.seek_serial = ctl.seek_serial
    /\ (BurstDone /\ dec_serial_chan = <<>>)
          => dec.seek_serial = ctl.seek_serial

\* C4: once stop() has been called it returns: while stop() is running some
\* thread can always take a step (a state in which stop() waits in join and
\* no thread can move is a stop() that never returns).
C4_StopReturns ==
    InStop => ENABLED Next

\* ------------------------------------------------------ linear playback
\* Playback without any input event: no seek, no pause, no quit; stop() is
\* called when the presenter has taken the EOS sentinel.
PresenterLoop ==
    \/ MainNoEvent
    \/ MainTake
    \/ MainProcess

LinearNext ==
    \/ DemuxerPoll
    \/ DemuxerRead
    \/ DemuxerCheckRunning
    \/ Decoder
    \/ PresenterLoop
    \/ Stop

LinearSpec == Init /\ [][LinearNext]_vars

\* Each thread that can run is scheduled eventually.
LinearFairSpec ==
    /\ LinearSpec
    /\ WF_vars(DemuxerPoll \/ DemuxerRead \/ DemuxerCheckRunning)
    /\ WF_vars(Decoder)
    /\ WF_vars(PresenterLoop \/ Stop)

\* The demuxer has read every packet of the container.
ContainerExhausted == dmx.pc # "done" /\ dmx.pos > NumPackets

\* C6: in linear playback, once the container is exhausted the demuxer
\* queues the sentinel and returns, then the decoder drains the codec,
\* queues its sentinel and returns, and the presenter takes that sentinel
\* and leaves its loop, after the last frame of the container was drawn.
C6_EndOfStreamPropagates ==
    /\ ContainerExhausted ~> (dmx.result = "Ok")
    /\ (dmx.result = "Ok") ~> (dec.result = "Ok")
    /\ (dec.result = "Ok") ~> (main.result = "Eos")
    /\ <>(main.result = "Eos" /\ main.last_pts = LastFrameMs)
    /\ [](dec.result = "Ok" => dmx.result = "Ok")
    /\ [](main.result = "Eos" => dec.result = "Ok")

\* The presenter has left its loop on the sentinel and stop() has returned.
C6_Witness ==
    /\ main.result = "Eos"
    /\ main.pc = "stopped"
    /\ main.last_pts = LastFrameMs

\* frame_time of every video frame on its way to the display, in pipeline
\* order: held by the presenter, in the video queue, in the codec, in the
\* packet queue, not yet read from the container.
RECURSIVE UnreadTimes(_)
UnreadTimes(i) ==
    IF i > NumPackets THEN <<>>
    ELSE IF IsVideo(i) THEN <<FrameTimeMs(PacketPts(i))>> \o UnreadTimes(i + 1)
    ELSE UnreadTimes(i + 1)

InFlightTimes ==
    LET frames == SelectSeq(video_queue, LAMBDA f : f.some)
        packets == SelectSeq(packet_queue, LAMBDA pk : pk.some)
    IN  (IF main.pc = "process" THEN <<main.video_data_item.frame_time>>
         ELSE <<>>)
        \o [i \in 1..Len(frames) |-> frames[i].frame_time]
        \o [i \in 1..Len(dec.buf) |-> FrameTimeMs(dec.buf[i])]
        \o [i \in 1..Len(packets) |-> FrameTimeMs(packets[i].pts)]
        \o (IF dmx.pc = "done" THEN <<>> ELSE UnreadTimes(dmx.pos))

PlayerInit ==
    /\ ctl = [running |-> TRUE, seek_serial |-> 0, paused |-> FALSE,
              threads |-> <<"demuxer", "decoder">>, pause_calls |-> 0,
              set_paused_result |-> "None"]
    /\ seek_chan = <<>>
    /\ dmx_serial_chan = <<>>
    /\ dec_serial_chan = <<>>
    /\ pause_chan = <<>>
    /\ packet_queue = <<>>
    /\ video_queue = <<>>
    /\ dmx = [pc |-> "read", seek_serial |-> 0, paused |-> FALSE, pos |-> 1,
              seek_to |-> 0, late_enqueues |-> 0, result |-> "running"]
    /\ dec = [pc |-> "take", seek_serial |-> 0, sent_eof |-> FALSE,
              last_frame_time |-> 0, buf |-> <<>>, draining |-> FALSE,
              first_diff |-> NoTime, first_frame_time |-> NoTime,
              sum_diff |-> 0, result |-> "running"]
    /\ main = [pc |-> "take", paused |-> FALSE, need_update |-> FALSE,
               seek_serial |-> 0, last_pts |-> 0,
               video_data_item |-> NoneFrame, observe |-> FALSE,
               taken |-> NoneTaken, drawn |-> 0, seek_steps |-> 0,
               timed |-> FALSE, now |-> 0, presentation_time |-> 0,
               resumed |-> "no", stop_calls |-> 0, result |-> "running"]

\* player.rs:173-184: read the next packet and enqueue it, or enqueue the
\* sentinel and leave the loop.
PlayerDemuxerRead ==
    /\ dmx.pc = "read"
    /\ IF dmx.pos <= NumPackets
       THEN IF IsVideo(dmx.pos)
            THEN /\ CanAdd(packet_queue, PACKET_QUEUE_SIZE)
                 /\ packet_queue' =
                       Append(packet_queue, PacketData(0, PacketPts(dmx.pos)))
                 /\ dmx' = [dmx EXCEPT !.pos = @ + 1, !.pc = "check",
                                       !.late_enqueues = LateEnqueues(@)]
            ELSE /\ dmx' = [dmx EXCEPT !.pos = @ + 1, !.pc = "check"]
                 /\ UNCHANGED packet_queue
       ELSE /\ CanAdd(packet_queue, PACKET_QUEUE_SIZE)
            /\ packet_queue' = Append(packet_queue, NonePacket)
            /\ dmx' = [DemuxerDone("Ok") EXCEPT
                           !.late_enqueues = LateEnqueues(@)]
    /\ UNCHANGED <<ctl, seek_chan, dmx_serial_chan, dec_serial_chan,
                   pause_chan, video_queue, dec, main>>

\* player.rs:186-188
PlayerDemuxerCheckRunning ==
    /\ dmx.pc = "check"
    /\ dmx' = IF ~RunningGone THEN [dmx EXCEPT !.pc = "read"]
              ELSE DemuxerDone("Ok")
    /\ UNCHANGED <<ctl, seek_chan, dmx_serial_chan, dec_serial_chan,
                   pause_chan, packet_queue, video_queue, dec, main>>

\* player.rs:274-291: blocking take of one packet; a packet is sent to the
\* codec, the sentinel makes the codec drain.
PlayerDecoderTake ==
    /\ dec.pc = "take"
    /\ CanTake(packet_queue)
    /\ packet_queue' = Tail(packet_queue)
    /\ dec' = IF Head(packet_queue).some
              THEN [dec EXCEPT !.buf = Append(@, Head(packet_queue).pts),
                               !.pc = "receive"]
              ELSE [dec EXCEPT !.sent_eof = TRUE, !.draining = TRUE,
                               !.pc = "receive"]
    /\ UNCHANGED <<ctl, seek_chan, dmx_serial_chan, dec_serial_chan,
                   pause_chan, video_queue, dmx, main>>

\* frame_diff of the Player's decoder (player.rs:255).
PlayerFrameDiff(last_frame_time, frame_time) == frame_time - last_frame_time

\* player.rs:217-270: one receive_frame.
PlayerDecoderReceive ==
    /\ dec.pc = "receive"
    /\ LET status == ReceiveStatus(dec)
           frame_time == FrameTimeMs(Head(dec.buf))
           diff == PlayerFrameDiff(dec.last_frame_time, frame_time)
       IN  CASE status = "Eof" ->
                  /\ CanAdd(video_queue, FRAME_QUEUE_SIZE)
                  /\ video_queue' = Append(video_queue, NoneFrame)
                  /\ dec' = DecoderDone("Ok")
             [] status = "EAGAIN" ->
                  /\ dec' = [dec EXCEPT !.pc = IF dec.sent_eof THEN "receive"
                                               ELSE "take"]
                  /\ UNCHANGED video_queue
             [] status = "Frame" ->
                  /\ CanAdd(video_queue, FRAME_QUEUE_SIZE)
                  /\ video_queue' =
                        Append(video_queue, VideoData(0, frame_time, diff))
                  /\ dec' = [dec EXCEPT !.buf = Tail(@),
                                        !.last_frame_time = frame_time,
                                        !.first_diff = FirstDiff(@, diff),
                                        !.pc = "check"]
    /\ UNCHANGED <<ctl, seek_chan, dmx_serial_chan, dec_serial_chan,
                   pause_chan, packet_queue, dmx, main>>

\* player.rs:268, 298-300
PlayerDecoderCheckRunning ==
    /\ dec.pc = "check"
    /\ dec' = IF ~RunningGone
              THEN [dec EXCEPT !.pc = IF dec.sent_eof THEN "receive"
                                      ELSE "take"]
              ELSE DecoderDone("Ok")
    /\ UNCHANGED <<ctl, seek_chan, dmx_serial_chan, dec_serial_chan,
                   pause_chan, packet_queue, video_queue, dmx, main>>

\* The client of Player::video_queue() takes one item; it calls
\* Player::stop() once it has taken the sentinel.
PlayerClientTake ==
    /\ main.pc = "take"
    /\ CanTake(video_queue)
    /\ video_queue' = Tail(video_queue)
    /\ main' = IF Head(video_queue).some
               THEN [main EXCEPT !.last_pts = Head(video_queue).frame_time]
               ELSE [main EXCEPT !.pc = "stop", !.result = "Eos"]
    /\ UNCHANGED <<ctl, seek_chan, dmx_serial_chan, dec_serial_chan,
                   pause_chan, packet_queue, dmx, dec>>

\* The client calls Player::stop() before the end of the stream.
PlayerClientStop ==
    /\ main.pc = "take"
    /\ main' = [main EXCEPT !.pc = "stop", !.result = "Quit"]
    /\ UNCHANGED <<ctl, seek_chan, dmx_serial_chan, dec_serial_chan,
                   pause_chan, packet_queue, video_queue, dmx, dec>>

\* Player::stop (player.rs:310-321) is FileDecoder::stop line for line.
PlayerNext ==
    \/ PlayerDemuxerRead
    \/ PlayerDemuxerCheckRunning
    \/ PlayerDecoderTake
    \/ PlayerDecoderReceive
    \/ PlayerDecoderCheckRunning
    \/ PlayerClientTake
    \/ PlayerClientStop
    \/ Stop

PlayerSpec == PlayerInit /\ [][PlayerNext]_vars

\* C10: the first frame the decoder queues after it adopted a serial, the
\* first frame of the run included, has diff_to_prev_frame 0.
C10_FirstFrameDeltaZero ==
    dec.first_diff \in {NoTime, 0}

\* ------------------------------------------------- order and spacing
\* C11: of two frames of the same serial that the presenter takes from the
\* video queue, the later one has a frame_time not below the earlier one's.
\* (The decoder's serial never decreases and the queue is FIFO, so frames of
\* one serial are taken in a row: it is enough to compare each frame with
\* the frame taken right before it.)
C11_TakenFramesInOrder ==
    [][(/\ main.pc = "take"
        /\ main'.pc = "process"
        /\ main.taken.frame_time # NoTime
        /\ main'.taken.serial = main.taken.serial)
       => main'.taken.frame_time >= main.taken.frame_time]_vars

\* C12: the diff_to_prev_frame of the frames the decoder queued since it
\* last adopted a serial add up to the frame_time of the last of them minus
\* the frame_time of the first.
C12_DiffsSumToSpan ==
    dec.first_frame_time # NoTime =>
        dec.sum_diff = dec.last_frame_time - dec.first_frame_time

\* ------------------------------------------------------ seek commands
\* Seek targets sent so far: seek() sends the target, then bumps
\* seek_serial.
SeekTargetsSent ==
    ctl.seek_serial + (IF main.pc = "seek_demuxer_serial" THEN 1 ELSE 0)

\* C13: when the demuxer performs the backend seek of a seek command it
\* holds the serial that seek created: the k-th target it handles is handled
\* under serial k.
C13_SeekHandledUnderItsSerial ==
    [][(dmx.pc = "seek" /\ dmx'.pc # "seek")
       => dmx'.seek_serial = SeekTargetsSent - Len(seek_chan)]_vars

\* C14: a command sent after its receiving thread has returned is no error:
\* seek() does not panic and set_paused() does not return Err.
C14_SendFailureIsNoError ==
    /\ main.result # "Panic"
    /\ ctl.set_paused_result # "Err"

\* ------------------------------------------------------ process result
\* main.rs:384-387: after the loop main calls stop() and returns Ok(()); a
\* panic of main ends the process with a failure instead.
MainReturnsOk == main.pc = "stopped" /\ main.result \in {"Quit", "Eos"}

\* A worker thread returned an error or panicked.
WorkerFailed ==
    \/ dmx.result \in {"Err", "Panic"}
    \/ dec.result \in {"Err", "Panic"}

\* C15: when the demuxer or the decoder thread ended with an error or a
\* panic, main does not return Ok after stop().
C15_WorkerFailureFailsProcess ==
    WorkerFailed => ~MainReturnsOk

\* ------------------------------------------------- seek while paused
\* The user presses Space once, and presses the seek keys only while the
\* presenter is paused.
PausedSeekNext ==
    \/ Demuxer
    \/ Decoder
    \/ (~main.paused /\ MainPause)
    \/ (main.paused /\ \E forward \in BOOLEAN : MainSeek(forward))
    \/ SeekSendDemuxerSerial
    \/ SeekSendDecoderSerial
    \/ MainNoEvent
    \/ MainTake
    \/ MainProcess
    \/ MainQuit
    \/ Stop

PausedSeekSpec == Init /\ [][PausedSeekNext]_vars

\* C16: after a seek while paused exactly one frame is drawn.  The draw
\* that clears need_update shows a frame of the seek's serial; with
\* need_update cleared the paused presenter takes no frame; and the frame
\* is drawn: the presenter does not leave its loop on the EOS sentinel with
\* need_update still set (the seek's target lies inside the container and
\* no thread failed).
C16_PausedSeekDrawsOneFrame ==
    [][/\ (/\ main.paused /\ main.need_update
           /\ main'.result = "running" /\ ~main'.need_update)
          => main.video_data_item.serial = ctl.seek_serial
       /\ (main.paused /\ ~main.need_update /\ main.pc = "events")
          => main'.pc # "take"
       /\ (/\ main.paused /\ main.need_update
           /\ main'.result = "Eos"
           /\ dmx.result # "Err" /\ dec.result # "Panic"
           /\ FirstFrameMs <= AsSigned(main.last_pts)
           /\ AsSigned(main.last_pts) <= LastFrameMs)
          => FALSE]_vars

\* ----------------------------------------------------------- shutdown
\* C17 as stated: once the running flag is released the demuxer puts
\* nothing more on the packet queue.
C17_NoEnqueueAfterRelease ==
    dmx.late_enqueues = 0

\* C17 as amended: once the running flag is released the demuxer puts at
\* most one more item on the packet queue, the one of the iteration it is
\* in; the check that ends that iteration makes it return.
C17_AtMostOneEnqueueAfterRelease ==
    dmx.late_enqueues <= 1

\* stop() has returned and the demuxer did enqueue an item after the flag
\* was released.
C17_Witness ==
    /\ main.pc = "stopped"
    /\ dmx.late_enqueues = 1

\* ------------------------------------------------------ packets and seek
\* C18: when the demuxer has finished handling a seek command the packet
\* queue holds nothing.  The demuxer is the queue's only producer and
\* enqueues nothing while it handles the command, so every packet the
\* decoder takes from then on was enqueued after the command was handled.
C18_NoPreSeekPacketAfterSeek ==
    [][(dmx.pc = "seek" /\ dmx'.pc = "read") => packet_queue' = <<>>]_vars

\* Both workers hold the serial of the last seek, and the decoder has taken
\* a packet that the demuxer enqueued after handling that seek.
C18_Witness ==
    /\ dmx.seek_serial = MaxSeeks
    /\ dec.seek_serial = MaxSeeks
    /\ dec.pc = "receive"
    /\ dec.buf # <<>>

\* C19: the decoder discards a packet only when the packet's serial is
\* below its own.
C19_DiscardsOnlyOlder ==
    [][(dec.pc = "take" /\ dec'.pc = "poll")
       => Head(packet_queue).serial < dec.seek_serial]_vars

\* ----------------------------------------------------------------- pause
\* C20: pause is local to the controller: no pause state reaches the
\* demuxer, set_paused(true) included, so the demuxer keeps reading and
\* enqueuing until the packet queue is full.
C20_NoPauseReachesDemuxer ==
    ~dmx.paused

\* ------------------------------------------------------- fatal errors
\* The decoder can put nothing more on the video queue: its thread is gone,
\* or it is blocked in packet_queue.take() and the demuxer thread is gone.
DecoderSilent ==
    \/ dec.pc = "done"
    \/ dec.pc = "take" /\ packet_queue = <<>> /\ dmx.pc = "done"

\* The presenter is blocked in video_queue.take() and nothing will wake it:
\* main pumps no events while it is blocked there.
PresenterBlockedForever ==
    /\ main.pc = "take"
    /\ video_queue = <<>>
    /\ DecoderSilent

\* C21: when the demuxer or the decoder thread ended on a fatal error the
\* pipeline stops: the presenter does not stay blocked forever in
\* video_queue.take().
C21_FailureStopsPipeline ==
    WorkerFailed => ~PresenterBlockedForever

\* file_decoder.rs:431-439: decoder.send_packet or decoder.send_eof returns
\* an error for the packet just taken; the result is unwrapped, so the
\* decoder thread panics.
DecoderSendFails ==
    /\ dec.pc = "take"
    /\ CanTake(packet_queue)
    /\ Head(packet_queue).some => PacketIsCurrent(dec.seek_serial,
                                                  Head(packet_queue))
    /\ packet_queue' = Tail(packet_queue)
    /\ dec' = DecoderDone("Panic")
    /\ UNCHANGED <<ctl, seek_chan, dmx_serial_chan, dec_serial_chan,
                   pause_chan, video_queue, dmx, main>>

\* file_decoder.rs:343-360, 366-369 and 442-448: receive_frame returns an
\* error other than Eof and EAGAIN, or the scaler fails;
\* receive_and_process_decoded_frame returns Err, which the loop unwraps:
\* the decoder thread panics.
DecoderReceiveFails ==
    /\ dec.pc = "receive"
    /\ dec' = DecoderDone("Panic")
    /\ UNCHANGED <<ctl, seek_chan, dmx_serial_chan, dec_serial_chan,
                   pause_chan, packet_queue, video_queue, dmx, main>>

\* The program with a codec or scaler that can fail.
FaultNext ==
    \/ Next
    \/ DecoderSendFails
    \/ DecoderReceiveFails

FaultSpec == Init /\ [][FaultNext]_vars

\* C22: a backend error during decoding ends the decoder thread with that
\* error as the thread's result: join sees an error value, not a panic.
C22_BackendErrorIsReturned ==
    [][(DecoderSendFails \/ DecoderReceiveFails) => dec'.result = "Err"]_vars

\* ----------------------------------------------------------------- pacing
\* The program with the presenter's clock running and its history kept.
PacedInit == InitWith(TRUE, TRUE)

\* Playback with at most PacedSeeks seeks, the clock running; stop() is
\* called when the presenter has taken the EOS sentinel or seek() has
\* panicked.
SeekPacedNext ==
    \/ Demuxer
    \/ Decoder
    \/ \E forward \in BOOLEAN : ctl.seek_serial < PacedSeeks /\ MainSeek(forward)
    \/ SeekSendDemuxerSerial
    \/ SeekSendDecoderSerial
    \/ PresenterLoop
    \/ Stop
    \/ Tick

SeekPacedSpec == PacedInit /\ [][SeekPacedNext]_vars

\* C23: the first frame drawn after a seek (need_update is still set when
\* it is processed) is drawn without a pacing sleep: its
\* diff_to_prev_frame is 0, the presentation anchor is not in the future,
\* and the clock after the draw is the clock before it.
C23_FirstFrameAfterSeekImmediate ==
    [][(/\ main.pc = "process" /\ main'.pc = "events"
        /\ main.need_update
        /\ main.video_data_item.serial = main.seek_serial)
       => /\ main.video_data_item.diff_to_prev_frame = 0
          /\ main.presentation_time <= main.now
          /\ main'.now = main.now]_vars

\* After a seek the presenter has drawn a frame of the new serial whose
\* frame_time is not zero, with the clock ahead of the anchor.
C23_Witness ==
    /\ main.pc = "events"
    /\ main.seek_serial > 0
    /\ ~main.need_update
    /\ main.last_pts >= FirstFrameMs
    /\ main.now > main.presentation_time

\* Linear playback with the Space key, the clock running.
PausePacedNext ==
    \/ LinearNext
    \/ MainPause
    \/ Tick

PausePacedSpec == PacedInit /\ [][PausePacedNext]_vars

\* The presenter draws the frame it holds.
Draws ==
    /\ main.pc = "process"
    /\ main'.pc = "events"
    /\ main.video_data_item.serial = main.seek_serial

\* The Space key ends a pause.
Resumes ==
    /\ main.pc = "events"
    /\ main'.pc = "events"
    /\ main.paused
    /\ ~main'.paused

\* C24 as stated: a pause that ends sets the presentation anchor to the
\* instant it ends, the first frame drawn afterwards is drawn without a
\* pacing sleep, and every later frame is drawn no earlier than its
\* diff_to_prev_frame after the target instant of the frame before.
C24_ResumedFrameImmediate ==
    [][/\ Resumes => main'.presentation_time = main.now
       /\ (Draws /\ main.resumed = "pending") => main'.now = main.now
       /\ (Draws /\ main.resumed # "pending")
          => main'.now >= main.presentation_time
                          + main.video_data_item.diff_to_prev_frame]_vars

\* C24 as amended: a pause that ends sets the presentation anchor to the
\* instant it ends, and every frame drawn afterwards, the first one
\* included, is drawn no earlier than its diff_to_prev_frame after the
\* anchor, which then moves on by that diff_to_prev_frame.
C24_PacedFromResumedAnchor ==
    [][/\ Resumes => main'.presentation_time = main.now
       /\ Draws
          => /\ main'.now >= main.presentation_time
                             + main.video_data_item.diff_to_prev_frame
             /\ main'.presentation_time
                  = main.presentation_time
                    + main.video_data_item.diff_to_prev_frame]_vars

\* A pause ended later than the anchor it replaced, and the first frame
\* after it was drawn when the clock had reached its target instant.
C24_Witness ==
    /\ main.pc = "events"
    /\ main.resumed = "drawn"
    /\ main.last_pts > FirstFrameMs
    /\ main.now = main.presentation_time
    /\ main.presentation_time % FrameTicks # 0

\* ----------------------------------------------------------- seek targets
\* Playback with seeks, the presenter's history kept; stop() is called when
\* the presenter has taken the EOS sentinel or seek() has panicked.
SeekObservedNext ==
    \/ Demuxer
    \/ Decoder
    \/ \E forward \in BOOLEAN : MainSeek(forward)
    \/ SeekSendDemuxerSerial
    \/ SeekSendDecoderSerial
    \/ PresenterLoop
    \/ Stop

SeekObservedSpec == ObservedInit /\ [][SeekObservedNext]_vars

\* A seek event is handled: its target has just been sent to the demuxer.
SeekIssued ==
    /\ main.pc = "events"
    /\ main'.pc = "seek_demuxer_serial"

\* The target the last seek event sent.
TargetSent == seek_chan'[Len(seek_chan')]

\* C25 as stated: the target of every seek event is the frame_time of the
\* most recently drawn frame minus or plus SEEK_STEP_MS, also for several
\* seeks in a row and below SEEK_STEP_MS.
C25_TargetFromLastDrawnFrame ==
    [][SeekIssued
       => \/ TargetSent = main.drawn + SEEK_STEP_MS
          \/ TargetSent = main.drawn - SEEK_STEP_MS]_vars

\* C25 as amended: the target of a seek event is the frame_time of the most
\* recently drawn frame plus SEEK_STEP_MS for every SeekForward and minus
\* SEEK_STEP_MS for every SeekBackward event since that frame was drawn,
\* this event included; it may be negative.
C25_TargetAccumulatesSeeks ==
    [][SeekIssued
       => TargetSent = main.drawn + main'.seek_steps * SEEK_STEP_MS]_vars

\* Two seek events in a row with no frame drawn in between, after a frame
\* was drawn, and the target has gone below zero.
C25_Witness ==
    /\ main.drawn > 0
    /\ main.seek_steps = -2
    /\ AsSigned(main.last_pts) < 0

\* ------------------------------------------------------- stale frames
\* C26: a frame whose serial is not the presenter's is discarded: it is
\* not drawn and not slept for (the clock after the step is the clock
\* before it), and last_pts, the presentation anchor, paused and
\* need_update keep their values.
C26_StaleFrameDiscarded ==
    [][(/\ main.pc = "process" /\ main'.pc = "events"
        /\ main.video_data_item.serial # main.seek_serial)
       => /\ main'.drawn = main.drawn
          /\ main'.now = main.now
          /\ main'.last_pts = main.last_pts
          /\ main'.presentation_time = main.presentation_time
          /\ main'.paused = main.paused
          /\ main'.need_update = main.need_update]_vars

\* The presenter has taken a frame of an older serial with a frame_time
\* other than that of the frame it drew last, and has dealt with it: it
\* was discarded.
C26_Witness ==
    /\ main.pc = "events"
    /\ main.taken.frame_time # NoTime
    /\ main.taken.serial # main.seek_serial
    /\ main.taken.frame_time # main.drawn
    /\ main.need_update

\* ------------------------------------------------------------- sentinels
\* C27: the EOS sentinel is the last item its producer enqueues.  A step
\* that puts an item on the packet queue is a step of the running demuxer,
\* and when the item is the sentinel the demuxer thread has returned with
\* that step; likewise for the decoder and the video queue.  So each queue
\* gets at most one sentinel and nothing after it.
C27_SentinelIsLast ==
    [][/\ Len(packet_queue') > Len(packet_queue)
          => /\ dmx.pc # "done"
             /\ ~packet_queue'[Len(packet_queue')].some => dmx'.pc = "done"
       /\ Len(video_queue') > Len(video_queue)
          => /\ dec.pc # "done"
             /\ ~video_queue'[Len(video_queue')].some => dec'.pc = "done"]_vars

\* After a seek both sentinels were enqueued and the presenter has taken
\* the decoder's.
C27_Witness ==
    /\ ctl.seek_serial > 0
    /\ dmx.result = "Ok"
    /\ dec.result = "Ok"
    /\ main.result = "Eos"
    /\ ctl.running

\* ------------------------------------------------- seek at end of stream
\* The demuxer has enqueued its EOS sentinel and returned (the controller
\* still holds the running flag, so it did not return for a stop).
DemuxerEnded ==
    /\ dmx.pc = "done"
    /\ dmx.result = "Ok"
    /\ ctl.running

\* The decoder is blocked in packet_queue.take() with no producer left.
DecoderBlockedForever ==
    /\ dec.pc = "take"
    /\ packet_queue = <<>>
    /\ dmx.pc = "done"

\* C28: with a seek issued around the demuxer's end of stream the pipeline
\* still reaches end-of-stream: the decoder does not end up blocked on the
\* empty packet queue after the demuxer has enqueued its sentinel and
\* returned.
C28_SeekAtEndReachesEos ==
    (DemuxerEnded /\ ctl.seek_serial > 0) => ~DecoderBlockedForever

\* ------------------------------------------------------ queue contents
\* C29: the queues are epoch-homogeneous.  The demuxer adopts a serial and
\* clears the packet queue in one handling of a seek command, and the
\* decoder adopts a serial and clears the video queue in one poll; outside
\* of these every packet in the packet queue carries the serial of the
\* running demuxer, and every frame in the video queue the serial of the
\* running decoder.
C29_QueuesEpochHomogeneous ==
    /\ dmx.pc # "done"
       => \A i \in 1..Len(packet_queue) :
             packet_queue[i].some
                => packet_queue[i].serial = dmx.seek_serial
    /\ dec.pc # "done"
       => \A i \in 1..Len(video_queue) :
             video_queue[i].some => video_queue[i].serial = dec.seek_serial

\* After a seek each queue holds an item of the new serial.
C29_Witness ==
    /\ packet_queue # <<>>
    /\ video_queue # <<>>
    /\ Head(packet_queue).some
    /\ Head(video_queue).some
    /\ Head(packet_queue).serial > 0
    /\ Head(video_queue).serial > 0

\* ------------------------------------------------------------ frame diff
\* C30: the subtraction frame_time - prev_time of the decoder never goes
\* below zero: when the decoder is about to process a decoded frame and
\* last_frame_time is set, the frame's frame_time is not before it.
C30_FrameDiffNeverUnderflows ==
    (/\ dec.pc = "receive"
     /\ ReceiveStatus(dec) = "Frame"
     /\ dec.last_frame_time # NoTime)
    => FrameTimeMs(Head(dec.buf)) >= dec.last_frame_time

\* ------------------------------------------------------------------ C31
\* The pipeline, with the controller dropped after main's explicit stop().
DropNext == Next \/ DropPlayer

DropSpec == Init /\ [][DropNext]_vars

\* The second call of stop() is under way or has returned.
SecondStop == main.stop_calls = 2

\* C31: a second call of stop() finds the running flag released and no
\* thread handle left, never waits in a join, and every step of it leaves
\* the controller's fields (running, threads, seek serial, paused) as the
\* first call left them.
C31_SecondStopIsNoOp ==
    [][main'.stop_calls = 2 =>
          /\ ~ctl.running
          /\ ctl.threads = <<>>
          /\ ctl' = ctl
          /\ main'.pc \in {"stop_clear_packets", "stop_clear_frames",
                           "stopped"}]_vars

\* The second call has returned, after the first had left a late packet
\* of the demuxer in the queue.
C31_Witness ==
    /\ SecondStop
    /\ main.pc = "stopped"
    /\ dmx.late_enqueues > 0

====
